---- MODULE Spec2Model ----
(***************************************************************************)
(* One invocation of `ethereal transaction info` or `ethereal transaction  *)
(* cancel`, as a state machine.  The node (chain RPC), the signer and the  *)
(* RLP content of a raw blob are the environment: their outcomes are       *)
(* chosen nondeterministically.  stdout is a sequence of report lines,     *)
(* each a record [k, n]: k names the line, n is a number the line carries  *)
(* (a log index, a word's byte count).                                     *)
(***************************************************************************)
EXTENDS Integers, Sequences, FiniteSets, TLC

VARIABLES
    cmd,                 \* "info" or "cancel": the command invoked
    transactionStr,      \* --transaction, a sequence of characters
    quiet,               \* --quiet
    verbose,             \* --verbose
    transactionInfoRaw,  \* --raw
    transactionInfoJson, \* --json
    gaspriceFlag,        \* viper "gasprice": <<>> when "", else <<value>>
    gasPrice,            \* package variable gasPrice: <<>> or <<value>>
    nonce,               \* package variable nonce (int64)
    pc,                  \* position in Run
    branch,              \* which branch of the length test Run took
    tx,                  \* <<>> (nil) or <<transaction>>
    pending,             \* pending flag returned by the lookup
    err,                 \* "" (nil) or the error of the last call
    receipt,             \* <<>> (nil) or <<receipt>>
    fromAddress,         \* "" or the recovered sender
    signedTx,            \* <<>> or <<signed replacement>>
    call,                \* the remote call in flight, with its context
    stdout,              \* lines written to standard output
    stderr,              \* lines written to standard error
    logged,              \* structured log records (logrus)
    exitCode,            \* -1 while running, then the process exit code
    steps,               \* history: the fallible steps performed, in order
    signRequests,        \* history: unsigned transactions handed to the signer
    sent                 \* history: signed transactions submitted

inputs == <<cmd, transactionStr, quiet, verbose, transactionInfoRaw,
            transactionInfoJson, gaspriceFlag>>
vars == <<cmd, transactionStr, quiet, verbose, transactionInfoRaw,
          transactionInfoJson, gaspriceFlag, gasPrice, nonce, pc, branch, tx,
          pending, err, receipt, fromAddress, signedTx, call, stdout, stderr,
          logged, exitCode, steps, signRequests, sent>>

----------------------------------------------------------------------------
(* Bounds of the model *)

\* longest run of characters after the optional 0x prefix
MaxHexLen == 67
\* gas prices 0..MaxSmallPrice, plus ScenarioPrice
MaxSmallPrice == 9
\* nonces 0..MaxNonce
MaxNonce == 1
\* explicit --gasprice values 1..MaxExplicit
MaxExplicit == 2
\* topics per log 0..MaxTopics
MaxTopics == 1
\* log data lengths are 0..MaxDataChunks half words
MaxDataChunks == 3

(* Program constants *)

\* len(transactionStr) > 66
HashStrLen == 66
\* log.Data[j*32:(j+1)*32]
WordSize == 32
\* big.NewInt(9)
BumpDivisor == 9
\* "The cancellation transaction will cost 21000 gas."
TransferGas == 21000

ScenarioPrice == 10 ^ 9

Nil == <<>>
Some(x) == <<x>>

----------------------------------------------------------------------------
(* Strings *)

HexPrefix == <<"0", "x">>

HexDigits ==
    {"0", "1", "2", "3", "4", "5", "6", "7", "8", "9",
     "a", "b", "c", "d", "e", "f", "A", "B", "C", "D", "E", "F"}

Repeat(c, n) == [i \in 1..n |-> c]

Str(prefixed, c, n) == (IF prefixed THEN HexPrefix ELSE <<>>) \o Repeat(c, n)

HasPrefix(s, p) == Len(s) >= Len(p) /\ SubSeq(s, 1, Len(p)) = p

\* strings.TrimPrefix
TrimPrefix(s, p) == IF HasPrefix(s, p) THEN SubSeq(s, Len(p) + 1, Len(s)) ELSE s

\* hex.DecodeString succeeds: even length, hex digits only
HexDecodeOK(s) == Len(s) % 2 = 0 /\ \A i \in 1..Len(s) : s[i] \in HexDigits

\* len(transactionStr) > 66: the length of the string as given, prefix included
IsRawInput(s) == Len(s) > HashStrLen

\* common.HexToHash(transactionStr) names a full 32-byte digest; a shorter
\* input is padded with zero bytes, and the node holds nothing under that
NamesDigest(s) == Len(TrimPrefix(s, HexPrefix)) >= HashStrLen - 2

InputLens == {0} \cup ((HashStrLen - 2)..MaxHexLen)

\* inputs: runs of a hex digit of every length, and the longest run of a
\* character that is no hex digit, each with and without the 0x prefix
InputStrs ==
    {Str(p, "a", n) : p \in BOOLEAN, n \in InputLens}
        \cup {Str(p, "g", MaxHexLen) : p \in BOOLEAN}

----------------------------------------------------------------------------
(* Transactions, receipts, logs *)

NilAddr == "nil"

PriceVals == (0..MaxSmallPrice) \cup {ScenarioPrice}

\* the transactions the node may hold: every nonce and gas price for a plain
\* transfer (what the replacement is computed from), every shape of recipient
\* and payload (what the report depends on), each with a signature that does
\* or does not recover a sender
TxSet ==
    {t \in [nonce : 0..MaxNonce, gasPrice : PriceVals, to : {NilAddr, "addrB"},
            dataLen : {0, 4}, sigOK : BOOLEAN] :
        \/ t.to = "addrB" /\ t.dataLen = 0
        \/ t.nonce = 0 /\ t.gasPrice = 0}

\* txFrom: the sender recovered from the signature, or an error
txFrom(t) ==
    IF t.sigOK THEN [err |-> "", addr |-> "addrA"]
    ELSE [err |-> "invalid signature", addr |-> ""]

DataLens == {k * (WordSize \div 2) : k \in 0..MaxDataChunks}

RoundUp(n) == ((n + WordSize - 1) \div WordSize) * WordSize

\* a log's data is a Go slice: a length and a capacity no smaller
LogSet ==
    {l \in [address : {"addrL"}, topics : 0..MaxTopics, dataLen : DataLens,
            dataCap : DataLens \cup {RoundUp(d) : d \in DataLens}] :
        l.dataCap \in {l.dataLen, RoundUp(l.dataLen)}}

LogSeqs == {<<>>} \cup {<<l>> : l \in LogSet} \cup {<<l, l>> : l \in LogSet}

ReceiptSet ==
    [status : {0, 1}, contractAddress : {"addrC"}, logs : LogSeqs]

ExplicitVals == {Nil} \cup {Some(p) : p \in 1..MaxExplicit}

----------------------------------------------------------------------------
(* Process exit and diagnostics *)

\* cli.ErrCheck / cli.Assert: the message goes to stderr unless quiet
Diag(q, msg) == IF q THEN <<>> ELSE <<msg>>

\* os.Exit(code), or a panic (code 2), or Run returning (code 0)
Halt(code, diag) ==
    /\ exitCode' = code
    /\ pc' = "done"
    /\ stderr' = stderr \o diag

Step(op, ok) == [op |-> op, ok |-> ok]

Line(k, n) == [k |-> k, n |-> n]

NoCall == [op |-> "none", ctx |-> "none", state |-> "idle"]

\* localContext(): a context with a timeout
localContext == "bounded"

InFlight(op, ctx) == [op |-> op, ctx |-> ctx, state |-> "inflight"]

----------------------------------------------------------------------------
Init ==
    /\ cmd \in {"info", "cancel"}
    /\ transactionStr \in InputStrs
    /\ quiet \in BOOLEAN
    /\ verbose \in (IF cmd = "info" THEN BOOLEAN ELSE {FALSE})
    /\ transactionInfoRaw \in (IF cmd = "info" THEN BOOLEAN ELSE {FALSE})
    /\ transactionInfoJson \in (IF cmd = "info" THEN BOOLEAN ELSE {FALSE})
    /\ gaspriceFlag \in (IF cmd = "cancel" THEN ExplicitVals ELSE {Nil})
    /\ gasPrice = gaspriceFlag
    /\ nonce = -1
    /\ pc = IF cmd = "info" THEN "i_start" ELSE "c_start"
    /\ branch = "none"
    /\ tx = Nil
    /\ pending = FALSE
    /\ err = ""
    /\ receipt = Nil
    /\ fromAddress = ""
    /\ signedTx = Nil
    /\ call = NoCall
    /\ stdout = <<>>
    /\ stderr = <<>>
    /\ logged = <<>>
    /\ exitCode = -1
    /\ steps = <<>>
    /\ signRequests = <<>>
    /\ sent = <<>>

----------------------------------------------------------------------------
(* The node: answers to the remote calls, and the context's timeout *)

LookupAnswers ==
    {[err |-> e, tx |-> Nil, pending |-> FALSE] : e \in {"not found", "network"}}
        \cup (IF NamesDigest(transactionStr)
              THEN {[err |-> "", tx |-> Some(t), pending |-> p] :
                      t \in TxSet, p \in BOOLEAN}
              ELSE {})

\* client.TransactionByHash returns
NodeLookupAnswer ==
    /\ call.state = "inflight" /\ call.op = "lookup"
    /\ \E a \in LookupAnswers :
        /\ tx' = a.tx
        /\ pending' = a.pending
        /\ err' = a.err
        /\ steps' = Append(steps, Step("lookup", a.err = ""))
    /\ call' = [call EXCEPT !.state = "returned"]
    /\ UNCHANGED <<inputs, gasPrice, nonce, pc, branch, receipt, fromAddress,
                   signedTx, stdout, stderr, logged, exitCode, signRequests,
                   sent>>

\* client.TransactionReceipt returns: a receipt, or nil and an error
NodeReceiptAnswer ==
    /\ call.state = "inflight" /\ call.op = "receipt"
    /\ \E r \in {Nil} \cup {Some(x) : x \in ReceiptSet} :
        /\ receipt' = r
        /\ err' = IF r = Nil THEN "not found" ELSE ""
        /\ steps' = Append(steps, Step("receipt", r # Nil))
    /\ call' = [call EXCEPT !.state = "returned"]
    /\ UNCHANGED <<inputs, gasPrice, nonce, pc, branch, tx, pending,
                   fromAddress, signedTx, stdout, stderr, logged, exitCode,
                   signRequests, sent>>

\* client.SendTransaction returns
NodeSendAnswer ==
    /\ call.state = "inflight" /\ call.op = "send"
    /\ \E e \in {"", "network"} :
        /\ err' = e
        /\ steps' = Append(steps, Step("send", e = ""))
    /\ call' = [call EXCEPT !.state = "returned"]
    /\ UNCHANGED <<inputs, gasPrice, nonce, pc, branch, tx, pending, receipt,
                   fromAddress, signedTx, stdout, stderr, logged, exitCode,
                   signRequests, sent>>

\* the deadline of a bounded context passes: the call returns an error
Timeout ==
    /\ call.state = "inflight" /\ call.ctx = "bounded"
    /\ err' = "context deadline exceeded"
    /\ steps' = Append(steps, Step(call.op, FALSE))
    /\ call' = [call EXCEPT !.state = "returned"]
    /\ UNCHANGED <<inputs, gasPrice, nonce, pc, branch, tx, pending, receipt,
                   fromAddress, signedTx, stdout, stderr, logged, exitCode,
                   signRequests, sent>>

----------------------------------------------------------------------------
(* transaction info *)

\* the canonical (RLP) decoding of the blob: a transaction, or an error
DecodeOutcomes == {Nil} \cup {Some(t) : t \in TxSet}

\* Run, from its start to the lookup call or the decoded blob
InfoLocate ==
    /\ cmd = "info" /\ pc = "i_start"
    /\ IF Len(transactionStr) = 0
       THEN /\ Halt(1, Diag(quiet, "--transaction is required"))
            /\ steps' = Append(steps, Step("input", FALSE))
            /\ UNCHANGED <<branch, tx, call>>
       ELSE IF IsRawInput(transactionStr)
       THEN /\ branch' = "raw"
            /\ call' = call
            /\ IF ~HexDecodeOK(TrimPrefix(transactionStr, HexPrefix))
               THEN /\ Halt(1, Diag(quiet, "Failed to decode data"))
                    /\ steps' = Append(steps, Step("hexdecode", FALSE))
                    /\ tx' = tx
               ELSE \E d \in DecodeOutcomes :
                    /\ steps' = steps \o <<Step("hexdecode", TRUE),
                                           Step("rlpdecode", d # Nil)>>
                    /\ tx' = d
                    /\ IF d = Nil
                       THEN Halt(1, Diag(quiet, "Failed to decode raw transaction"))
                       ELSE /\ pc' = "i_located"
                            /\ UNCHANGED <<exitCode, stderr>>
       ELSE /\ branch' = "id"
            /\ call' = InFlight("lookup", localContext)
            /\ pc' = "i_wait_lookup"
            /\ UNCHANGED <<tx, steps, exitCode, stderr>>
    /\ UNCHANGED <<inputs, gasPrice, nonce, pending, err, receipt, fromAddress,
                   signedTx, stdout, logged, signRequests, sent>>

\* cli.ErrCheck after client.TransactionByHash
InfoLookupDone ==
    /\ cmd = "info" /\ pc = "i_wait_lookup" /\ call.state = "returned"
    /\ call' = NoCall
    /\ IF err # ""
       THEN Halt(1, Diag(quiet, "Failed to obtain transaction"))
       ELSE /\ pc' = "i_located"
            /\ UNCHANGED <<exitCode, stderr>>
    /\ UNCHANGED <<inputs, gasPrice, nonce, branch, tx, pending, err, receipt,
                   fromAddress, signedTx, stdout, logged, steps, signRequests,
                   sent>>

\* if quiet { os.Exit(0) }
InfoQuietStop_Never(q) == FALSE
InfoQuietStop(q) == q

TypeLine(t, p) ==
    IF p
    THEN (IF t.to = NilAddr THEN Line("Type: Pending contract creation", 0)
          ELSE Line("Type: Pending transaction", 0))
    ELSE (IF t.to = NilAddr THEN Line("Type: Mined contract creation", 0)
          ELSE Line("Type: Mined transaction", 0))

\* Run, from the quiet test to the Type line and the receipt call
InfoDispatch ==
    /\ cmd = "info" /\ pc = "i_located"
    /\ IF InfoQuietStop(quiet)
       THEN /\ Halt(0, <<>>)
            /\ UNCHANGED <<stdout, call>>
       ELSE IF transactionInfoRaw
       THEN /\ stdout' = Append(stdout, Line("Raw", 0))
            /\ Halt(0, <<>>)
            /\ call' = call
       ELSE IF transactionInfoJson
       THEN /\ stdout' = Append(stdout, Line("Json", 0))
            /\ Halt(0, <<>>)
            /\ call' = call
       ELSE /\ stdout' = Append(stdout, TypeLine(tx[1], pending))
            /\ UNCHANGED <<exitCode, stderr>>
            /\ IF pending
               THEN /\ pc' = "i_body"
                    /\ call' = call
               ELSE /\ pc' = "i_wait_receipt"
                    /\ call' = InFlight("receipt", localContext)
    /\ UNCHANGED <<inputs, gasPrice, nonce, branch, tx, pending, err, receipt,
                   fromAddress, signedTx, logged, steps, signRequests, sent>>

ResultLines(r) ==
    IF r = Nil THEN <<>>
    ELSE IF r[1].status = 0 THEN <<Line("Result: Failed", 0)>>
    ELSE <<Line("Result: Succeeded", 0)>>

\* the receipt call has returned; its error is not looked at
InfoReceiptDone ==
    /\ cmd = "info" /\ pc = "i_wait_receipt" /\ call.state = "returned"
    /\ call' = NoCall
    /\ stdout' = stdout \o ResultLines(receipt)
    /\ pc' = "i_body"
    /\ UNCHANGED <<inputs, gasPrice, nonce, branch, tx, pending, err, receipt,
                   fromAddress, signedTx, stderr, logged, exitCode, steps,
                   signRequests, sent>>

FromLines(t) == IF txFrom(t).err = "" THEN <<Line("From", 0)>> ELSE <<>>

ToLines(t, r) ==
    IF t.to = NilAddr
    THEN (IF r # Nil THEN <<Line("Contract address", 0)>> ELSE <<>>)
    ELSE <<Line("To", 0)>>

GasUsedLines(r) == IF r # Nil THEN <<Line("Gas used", 0)>> ELSE <<>>

DataLines(t) == IF t.dataLen > 0 THEN <<Line("Data", 0)>> ELSE <<>>

BodyLines_GasUsedLast(t, r) ==
    FromLines(t) \o ToLines(t, r)
        \o <<Line("Nonce", 0), Line("Gas limit", 0)>>
        \o <<Line("Gas price", 0), Line("Value", 0)>>
        \o DataLines(t) \o GasUsedLines(r)

\* the lines from From to Data, in the order Run prints them
BodyLines(t, r) ==
    FromLines(t) \o ToLines(t, r)
        \o <<Line("Nonce", 0), Line("Gas limit", 0)>>
        \o GasUsedLines(r)
        \o <<Line("Gas price", 0), Line("Value", 0)>>
        \o DataLines(t)

\* Run, from txFrom to the Data line
InfoBody ==
    /\ cmd = "info" /\ pc = "i_body"
    /\ fromAddress' = txFrom(tx[1]).addr
    /\ steps' = Append(steps, Step("sender", txFrom(tx[1]).err = ""))
    /\ stdout' = stdout \o BodyLines(tx[1], receipt)
    /\ pc' = "i_logs"
    /\ UNCHANGED <<inputs, gasPrice, nonce, branch, tx, pending, err, receipt,
                   signedTx, call, stderr, logged, exitCode, signRequests,
                   sent>>

RECURSIVE TopicLines(_, _)
TopicLines(j, n) ==
    IF j >= n THEN <<>> ELSE <<Line("Topic", j)>> \o TopicLines(j + 1, n)

\* for j := 0; j*32 < len(log.Data); j++ { ... log.Data[j*32:(j+1)*32] }
\* a slice expression panics when its upper index exceeds the capacity
RECURSIVE DataWords(_, _, _)
DataWords(j, len, cap) ==
    IF ~(j * WordSize < len) THEN [lines |-> <<>>, panic |-> FALSE]
    ELSE IF (j + 1) * WordSize > cap THEN [lines |-> <<>>, panic |-> TRUE]
    ELSE LET rest == DataWords(j + 1, len, cap)
         IN  [lines |-> <<Line("Word", WordSize)>> \o rest.lines,
              panic |-> rest.panic]

LogLines(i, l) ==
    LET head == <<Line("Log", i), Line("Address", i)>>
                    \o (IF l.topics > 0
                        THEN <<Line("Topics", i)>> \o TopicLines(0, l.topics)
                        ELSE <<>>)
        words == DataWords(0, l.dataLen, l.dataCap)
    IN  IF l.dataLen > 0
        THEN [lines |-> head \o <<Line("LogData", i)>> \o words.lines,
              panic |-> words.panic]
        ELSE [lines |-> head, panic |-> FALSE]

RECURSIVE RenderLogs(_, _)
RenderLogs(i, logs) ==
    IF i > Len(logs) THEN [lines |-> <<>>, panic |-> FALSE]
    ELSE LET one == LogLines(i - 1, logs[i])
         IN  IF one.panic THEN one
             ELSE LET rest == RenderLogs(i + 1, logs)
                  IN  [lines |-> one.lines \o rest.lines, panic |-> rest.panic]

\* if verbose && len(receipt.Logs) > 0 { ... }, then Run returns
InfoLogs ==
    /\ cmd = "info" /\ pc = "i_logs"
    /\ IF ~verbose
       THEN /\ Halt(0, <<>>)
            /\ stdout' = stdout
       ELSE IF receipt = Nil
       THEN /\ Halt(2, <<"panic: nil pointer dereference">>)
            /\ stdout' = stdout
       ELSE IF Len(receipt[1].logs) = 0
       THEN /\ Halt(0, <<>>)
            /\ stdout' = stdout
       ELSE LET r == RenderLogs(1, receipt[1].logs)
            IN  /\ stdout' = stdout \o <<Line("Logs", 0)>> \o r.lines
                /\ IF r.panic
                   THEN Halt(2, <<"panic: slice bounds out of range">>)
                   ELSE Halt(0, <<>>)
    /\ UNCHANGED <<inputs, gasPrice, nonce, branch, tx, pending, err, receipt,
                   fromAddress, signedTx, call, logged, steps, signRequests,
                   sent>>

----------------------------------------------------------------------------
(* transaction cancel *)

\* Run, to the call client.TransactionByHash(context.Background(), txHash)
CancelLookup ==
    /\ cmd = "cancel" /\ pc = "c_start"
    /\ call' = InFlight("lookup", "background")
    /\ pc' = "c_wait_lookup"
    /\ UNCHANGED <<inputs, gasPrice, nonce, branch, tx, pending, err, receipt,
                   fromAddress, signedTx, stdout, stderr, logged, exitCode,
                   steps, signRequests, sent>>

\* cli.Assert(pending, quiet, "Transaction has already been mined")
CancelPrecondition_Skipped(p) == TRUE
CancelPrecondition(p) == p

\* tx.GasPrice().Add(tx.GasPrice(), tx.GasPrice().Div(tx.GasPrice(), big.NewInt(9)))
\* GasPrice() returns a fresh copy each time, and big.Int is unbounded
BumpedGasPrice_Tenth(p) == p + (p \div (BumpDivisor + 1))
BumpedGasPrice(p) == p + (p \div BumpDivisor)

\* int64(tx.Nonce()): value preserving below 2^63
ToInt64(n) == n

\* Run, from the error check of the lookup to nonce = int64(tx.Nonce())
CancelPrepare ==
    /\ cmd = "cancel" /\ pc = "c_wait_lookup" /\ call.state = "returned"
    /\ call' = NoCall
    /\ IF err # ""
       THEN /\ Halt(1, Diag(quiet, "Failed to obtain transaction"))
            /\ UNCHANGED <<gasPrice, fromAddress, nonce, steps>>
       ELSE IF ~CancelPrecondition(pending)
       THEN /\ Halt(1, Diag(quiet, "Transaction has already been mined"))
            /\ steps' = Append(steps, Step("precondition", FALSE))
            /\ UNCHANGED <<gasPrice, fromAddress, nonce>>
       ELSE /\ gasPrice' = IF gaspriceFlag = Nil
                           THEN Some(BumpedGasPrice(tx[1].gasPrice))
                           ELSE gasPrice
            /\ steps' = steps \o <<Step("precondition", TRUE),
                                   Step("sender", txFrom(tx[1]).err = "")>>
            /\ IF txFrom(tx[1]).err # ""
               THEN /\ Halt(1, Diag(quiet, "Failed to obtain from address"))
                    /\ UNCHANGED <<fromAddress, nonce>>
               ELSE /\ fromAddress' = txFrom(tx[1]).addr
                    /\ nonce' = ToInt64(tx[1].nonce)
                    /\ pc' = "c_sign"
                    /\ UNCHANGED <<exitCode, stderr>>
    /\ UNCHANGED <<inputs, branch, tx, pending, err, receipt, signedTx, stdout,
                   logged, signRequests, sent>>

\* createSignedTransaction(fromAddress, &fromAddress, nil, nil, nil): the
\* unsigned transfer it builds from its arguments and the package variables
UnsignedTx(from, to) ==
    [from |-> from, to |-> to, nonce |-> nonce, value |-> 0, dataLen |-> 0,
     gas |-> TransferGas, gasPrice |-> gasPrice[1]]

\* cli.ErrCheck(err, quiet, "Failed to create transaction")
SignFailureStops_Ignored(ok) == FALSE
SignFailureStops(ok) == ~ok

\* Run, from createSignedTransaction to the call client.SendTransaction
CancelSign ==
    /\ cmd = "cancel" /\ pc = "c_sign"
    /\ signRequests' = Append(signRequests, UnsignedTx(fromAddress, fromAddress))
    /\ \E ok \in BOOLEAN :
        /\ steps' = Append(steps, Step("sign", ok))
        /\ IF SignFailureStops(ok)
           THEN /\ Halt(1, Diag(quiet, "Failed to create transaction"))
                /\ UNCHANGED <<signedTx, sent, call>>
           ELSE /\ signedTx' = Some(UnsignedTx(fromAddress, fromAddress))
                /\ sent' = Append(sent, UnsignedTx(fromAddress, fromAddress))
                /\ call' = InFlight("send", "background")
                /\ pc' = "c_wait_send"
                /\ UNCHANGED <<exitCode, stderr>>
    /\ UNCHANGED <<inputs, gasPrice, nonce, branch, tx, pending, err, receipt,
                   fromAddress, stdout, logged>>

\* if quiet { os.Exit(0) }; fmt.Println(signedTx.Hash().Hex())
CancelPrintsHash(q) == ~q

\* Run, from the error check of the submission to its end
CancelDone ==
    /\ cmd = "cancel" /\ pc = "c_wait_send" /\ call.state = "returned"
    /\ call' = NoCall
    /\ IF err # ""
       THEN /\ Halt(1, Diag(quiet, "Failed to send transaction"))
            /\ UNCHANGED <<logged, stdout>>
       ELSE /\ logged' = Append(logged, "success")
            /\ stdout' = IF CancelPrintsHash(quiet)
                         THEN Append(stdout, Line("Hash", 0))
                         ELSE stdout
            /\ Halt(0, <<>>)
    /\ UNCHANGED <<inputs, gasPrice, nonce, branch, tx, pending, err, receipt,
                   fromAddress, signedTx, steps, signRequests, sent>>

----------------------------------------------------------------------------
Next ==
    \/ InfoLocate
    \/ InfoLookupDone
    \/ InfoDispatch
    \/ InfoReceiptDone
    \/ InfoBody
    \/ InfoLogs
    \/ CancelLookup
    \/ CancelPrepare
    \/ CancelSign
    \/ CancelDone
    \/ NodeLookupAnswer
    \/ NodeReceiptAnswer
    \/ NodeSendAnswer
    \/ Timeout

Spec == Init /\ [][Next]_vars

----------------------------------------------------------------------------
(* Properties *)

HasLine(k) == \E i \in 1..Len(stdout) : stdout[i].k = k

Failed(op) == \E i \in 1..Len(steps) : steps[i].op = op /\ ~steps[i].ok

Succeeded(op) == \E i \in 1..Len(steps) : steps[i].op = op /\ steps[i].ok

\* the lookup of transaction cancel has answered: the transaction is mined
ReportedMined ==
    cmd = "cancel" /\ Succeeded("lookup") /\ tx # Nil /\ ~pending

\* C1: in transaction cancel, once the lookup reports the transaction as
\* mined, nothing is handed to the signer and nothing is submitted, and the
\* error check that follows ends the invocation with exit code 1 and, unless
\* quiet, the message "Transaction has already been mined".
C1_MinedNeverReplaced ==
    ReportedMined =>
        /\ signRequests = <<>>
        /\ sent = <<>>
        /\ signedTx = Nil
        /\ pc \in {"c_wait_lookup", "done"}
        /\ pc = "done" =>
            /\ exitCode = 1
            /\ stderr = Diag(quiet, "Transaction has already been mined")
            /\ stdout = <<>>

C1_Witness == ReportedMined /\ pc = "done" /\ ~quiet /\ exitCode = 1

\* C2: every transaction handed to the signer by transaction cancel has the
\* nonce of the pending transaction, its sender as sender and recipient,
\* value 0, no payload, gas limit 21000, and as gas price the explicit
\* --gasprice when supplied, else p + floor(p / 9) for the pending price p
\* (1000000000 gives 1111111111).
C2_ReplacementFields ==
    \A i \in 1..Len(signRequests) :
        LET r == signRequests[i]
            t == tx[1]
        IN  /\ pending /\ t.sigOK
            /\ r.nonce = t.nonce
            /\ r.from = txFrom(t).addr
            /\ r.to = r.from
            /\ r.value = 0
            /\ r.dataLen = 0
            /\ r.gas = 21000
            /\ r.gasPrice = IF gaspriceFlag # Nil THEN gaspriceFlag[1]
                            ELSE t.gasPrice + (t.gasPrice \div 9)
            /\ (gaspriceFlag = Nil /\ t.gasPrice = 1000000000)
                    => r.gasPrice = 1111111111

C2_Witness ==
    /\ Len(signRequests) = 1
    /\ gaspriceFlag = Nil
    /\ tx[1].gasPrice = 1000000000
    /\ tx[1].nonce = 1
    /\ signRequests[1].gasPrice = 1111111111

\* C3: transaction info takes the raw-blob branch exactly when the input,
\* with an optional 0x prefix stripped, is longer than 64 characters, and
\* the identifier branch otherwise.
C3_DiscriminatorOnStrippedLength ==
    branch # "none" =>
        branch = IF Len(TrimPrefix(transactionStr, HexPrefix)) > 64
                 THEN "raw" ELSE "id"

\* C4: with no explicit --gasprice, the gas price of the replacement is
\* strictly greater than every positive gas price of the pending transaction.
C4_BumpStrictlyGreater ==
    \A i \in 1..Len(signRequests) :
        (gaspriceFlag = Nil /\ tx[1].gasPrice > 0)
            => signRequests[i].gasPrice > tx[1].gasPrice

Rendered == cmd = "info" /\ pc = "done" /\ HasLine("Value")

IsWord(l) == l.k = "Word"

RECURSIVE SumLen(_, _)
SumLen(logs, i) == IF i > Len(logs) THEN 0 ELSE logs[i].dataLen + SumLen(logs, i + 1)

RECURSIVE CeilWords(_, _)
CeilWords(logs, i) ==
    IF i > Len(logs) THEN 0
    ELSE ((logs[i].dataLen + 31) \div 32) + CeilWords(logs, i + 1)

RECURSIVE SumN(_, _)
SumN(ls, i) == IF i > Len(ls) THEN 0 ELSE ls[i].n + SumN(ls, i + 1)

\* C5: verbose rendering of logs, one of which has data of a length that is
\* no multiple of 32 bytes, completes without error, and the data of each
\* log is printed as ceil(len / 32) words that together hold exactly its len
\* bytes (so the last word of such a log is shorter than 32 bytes).
C5_PartialWordTruncated ==
    (/\ Rendered /\ verbose /\ receipt # Nil
     /\ \E i \in 1..Len(receipt[1].logs) : receipt[1].logs[i].dataLen % 32 # 0) =>
        LET words == SelectSeq(stdout, IsWord)
        IN  /\ exitCode = 0
            /\ Len(words) = CeilWords(receipt[1].logs, 1)
            /\ SumN(words, 1) = SumLen(receipt[1].logs, 1)

C6_WitnessInfo ==
    quiet /\ pc = "done" /\ exitCode = 0 /\ cmd = "info" /\ tx # Nil

\* C7 as claimed: a failed step is the last step of the invocation, and the
\* invocation ends with exit code 1.
C7_EveryFailureTerminal ==
    \A i \in 1..Len(steps) :
        ~steps[i].ok => (i = Len(steps) /\ (pc = "done" => exitCode = 1))

\* the failures transaction info goes on after
Tolerated(op) == cmd = "info" /\ op \in {"receipt", "sender"}

\* C7 as amended: a failed step other than the receipt fetch and the sender
\* recovery of transaction info is the last step of the invocation, nothing
\* is printed to standard output, the invocation ends with exit code 1, and
\* no step is performed twice; after a failed receipt fetch or sender
\* recovery transaction info goes on to print the rest of the report,
\* without the lines that need the missing value.
C7_TerminalFailures ==
    /\ \A i \in 1..Len(steps) :
        (~steps[i].ok /\ ~Tolerated(steps[i].op)) =>
            /\ i = Len(steps)
            /\ stdout = <<>>
            /\ call.state # "inflight"
            /\ pc = "done" => exitCode = 1
    /\ \A i, j \in 1..Len(steps) : i # j => steps[i].op # steps[j].op
    /\ (cmd = "info" /\ pc = "done" /\ Failed("receipt")) =>
            (HasLine("Value") /\ ~HasLine("Gas used") /\ exitCode # 1)
    /\ (cmd = "info" /\ pc = "done" /\ Failed("sender")) =>
            (HasLine("Value") /\ ~HasLine("From") /\ exitCode # 1)

C7_Witness ==
    cmd = "cancel" /\ Failed("sign") /\ pc = "done" /\ exitCode = 1 /\ sent = <<>>

\* C8: every remote call in flight runs under a bounded context.
C8_CallsBounded == call.state = "inflight" => call.ctx = "bounded"

\* the section of the report a line belongs to
Section(k) ==
    IF k \in {"Type: Pending contract creation", "Type: Pending transaction",
              "Type: Mined contract creation", "Type: Mined transaction"}
    THEN "Type"
    ELSE IF k \in {"Result: Failed", "Result: Succeeded"} THEN "Result"
    ELSE IF k \in {"To", "Contract address"} THEN "To"
    ELSE IF k \in {"Logs", "Log", "Address", "Topics", "Topic", "LogData", "Word"}
    THEN "Logs"
    ELSE k

SpecOrder ==
    <<"Type", "Result", "From", "To", "Nonce", "Gas limit", "Gas price",
      "Value", "Gas used", "Data", "Logs">>

CodeOrder ==
    <<"Type", "Result", "From", "To", "Nonce", "Gas limit", "Gas used",
      "Gas price", "Value", "Data", "Logs">>

Rank(order, k) == CHOOSE r \in 1..Len(order) : order[r] = Section(k)

TextReport == cmd = "info" /\ ~HasLine("Raw") /\ ~HasLine("Json")

\* each line is followed by a line of a later section, or both are lines of
\* the Logs section
InOrder(order) ==
    \A i \in 1..(Len(stdout) - 1) :
        \/ Rank(order, stdout[i].k) < Rank(order, stdout[i + 1].k)
        \/ Section(stdout[i].k) = "Logs" /\ Section(stdout[i + 1].k) = "Logs"

\* C9 as claimed: the lines of the text report appear in the order Type,
\* Result, From, To or Contract address, Nonce, Gas limit, Gas price, Value,
\* Gas used, Data, Logs.
C9_SpecOrder == TextReport => InOrder(SpecOrder)

\* C9 as amended: the lines of the text report appear in the order Type,
\* Result, From, To or Contract address, Nonce, Gas limit, Gas used, Gas
\* price, Value, Data, Logs, each section at most once.
C9_CodeOrder == TextReport => InOrder(CodeOrder)

C9_Witness ==
    /\ Rendered /\ exitCode = 0
    /\ HasLine("Result: Failed") /\ HasLine("From") /\ HasLine("Contract address")
    /\ HasLine("Gas used") /\ HasLine("Data") /\ HasLine("Word")

\* C10: a finished text report has a Logs section iff verbose is set and a
\* receipt with at least one log is present, and with no receipt the
\* rendering completes normally.
C10_LogsIffVerboseAndReceipt ==
    Rendered =>
        /\ HasLine("Logs") <=>
            (verbose /\ receipt # Nil /\ Len(receipt[1].logs) > 0)
        /\ receipt = Nil => exitCode = 0

====
